---------------------------- MODULE Spec2Model ----------------------------
(* The raffle program of programs/raffle/src/lib.rs as a state machine.      *)
(* One step is one instruction of the program executed as a transaction of  *)
(* the host ledger: the handler runs on the accounts it is given, and what  *)
(* it wrote is kept only when it returns Ok.                                *)
EXTENDS Integers, Sequences, FiniteSets, TLC

(***************************************************************************)
(* Bounds of the model.                                                    *)
(***************************************************************************)
U64Modulus == 4096      \* u64 arithmetic is done modulo this (2^64 in the program)
MaxTime == 2            \* the ledger clock runs over 0..MaxTime
SmallMaxEntrants == 1   \* the small max_entrants a raffle may be created with
MaxTickets == 2         \* explored purchases keep count <= MaxTickets
MaxRepeats == 2         \* explored purchases keep no_repeat <= MaxRepeats
RandMax == 1            \* the number derived from a timestamp ranges over 0..RandMax

(***************************************************************************)
(* Identities, accounts and the inputs of the instructions.                *)
(***************************************************************************)
MAX_ENTRANTS == 2000
Users == {"a", "b"}
NoKey == "default"               \* Pubkey::default(), the content of zeroed memory
Escrow == "escrow"               \* the NFT token account owned by global_authority
RaffleIds == {"r1", "r2"}        \* the raffle accounts
REAP_TOKEN_MINT == "REAP"
EndTimes == {MaxTime - 1}        \* end_timestamp values: one tick of the clock is left after the end
Amounts == {0, 1, 2, U64Modulus - 1}
RandValues == 0 .. RandMax
Unknown == 0 - 1                    \* the number of a timestamp nobody has derived yet

\* the arguments of create_raffle
Params(ticket_price_reap, ticket_price_sol, winner_count, whitelisted, max_entrants) ==
    [ ticket_price_reap |-> ticket_price_reap, ticket_price_sol |-> ticket_price_sol,
      winner_count |-> winner_count, whitelisted |-> whitelisted,
      max_entrants |-> max_entrants ]

SingleAssetParams == Params(1, 1, 1, 1, MAX_ENTRANTS)

RaffleParams ==
    { SingleAssetParams,
      Params(0, 0, 2, 0, MAX_ENTRANTS),
      Params(1, 0, 2, 1, SmallMaxEntrants),
      Params(0, 1, 1, 0, MAX_ENTRANTS + 1) }

\* what the accounts and collaborators of one buy_tickets call are like
BuyEnv(token_mint, lamports, burn_ok, transfer_ok, overflow_checks) ==
    [ token_mint |-> token_mint, lamports |-> lamports, burn_ok |-> burn_ok,
      transfer_ok |-> transfer_ok, overflow_checks |-> overflow_checks ]

GoodEnv == BuyEnv("REAP", U64Modulus - 1, TRUE, TRUE, TRUE)

WrapEnv == BuyEnv("REAP", U64Modulus - 1, TRUE, TRUE, FALSE)

BadEnvs ==
    { BuyEnv("OTHER", U64Modulus - 1, TRUE, TRUE, FALSE),
      BuyEnv("REAP", 0, TRUE, TRUE, FALSE),
      BuyEnv("REAP", U64Modulus - 1, FALSE, TRUE, FALSE),
      BuyEnv("REAP", U64Modulus - 1, TRUE, FALSE, TRUE) }

BuyEnvs == {GoodEnv, WrapEnv} \cup BadEnvs

\* the purchases explored: every amount where all goes well, one where it does not
BuyInputs == (Amounts \X {GoodEnv}) \cup ({1, U64Modulus - 1} \X {WrapEnv})
                \cup ({1} \X BadEnvs)

VARIABLES
    global_authority,   \* the GlobalPool account: [init, super_admin]
    raffle,             \* the RafflePool accounts, by raffle id
    nft,                \* who holds the one unit of the raffled NFT
    now,                \* Clock::get()?.unix_timestamp
    mul,                \* the number reveal_winner derives from timestamp `now`
    original,           \* history: the winner_count each raffle was created with
    revealed            \* history: whether a reveal_winner call on the raffle has succeeded

vars == <<global_authority, raffle, nft, now, mul, original, revealed>>

(***************************************************************************)
(* Fixed-size arrays of an account are kept as the prefix written so far;  *)
(* the rest is the zeroed memory the account was created with.             *)
(***************************************************************************)
At(arr, i, zero) == IF i < Len(arr) THEN arr[i + 1] ELSE zero

Put(arr, i, v, zero) ==
    IF i < Len(arr)
    THEN [arr EXCEPT ![i + 1] = v]
    ELSE arr \o [k \in 1 .. (i - Len(arr)) |-> zero] \o <<v>>

Live(rec) == SubSeq(rec.entrants, 1, rec.count)

ZeroRaffle ==
    [ init |-> FALSE, creator |-> NoKey, nft_mint |-> NoKey,
      ticket_price_reap |-> 0, ticket_price_sol |-> 0, end_timestamp |-> 0,
      max_entrants |-> 0, winner_count |-> 0, whitelisted |-> 0,
      entrants |-> <<>>, count |-> 0, no_repeat |-> 0,
      winner |-> <<>>, claimed_winner |-> <<>> ]

ZeroGlobal == [ init |-> FALSE, super_admin |-> NoKey ]

Ok == "Ok"
Result(rec, err, holder) == [ rec |-> rec, err |-> err, nft |-> holder ]

\* u64 `+` and `*`: a build with overflow checks panics, one without wraps.
Overflows(x) == x >= U64Modulus
Wrap(x) == x % U64Modulus

\* token::transfer of 1 unit of the NFT out of `from`: fails when `from` holds none.
TransferOk(holder, from) == holder = from

(***************************************************************************)
(* The host: an instruction that returns an error is rolled back whole.    *)
(***************************************************************************)
Commit(pre, res) == IF res.err = Ok THEN res.rec ELSE pre

CommitNft(holder, res) == IF res.err = Ok THEN res.nft ELSE holder

(***************************************************************************)
(* Account validation done before a handler runs.                          *)
(***************************************************************************)
\* Account<GlobalPool> with seeds: the account must exist and hold a GlobalPool.
GlobalAccountError(ga) == IF ga.init THEN Ok ELSE "AccountNotInitialized"

\* #[account(zero)] and load_init: the raffle account must still be zeroed.
ZeroAccountError(rec) == IF rec.init THEN "ConstraintZero" ELSE Ok

\* load_mut: the raffle account must hold a RafflePool.
LoadMutError(rec) == IF rec.init THEN Ok ELSE "AccountDiscriminatorMismatch"

(***************************************************************************)
(* The handlers.  Each returns the record as the handler left it, the      *)
(* error it returned (Ok when none) and the holder of the NFT.             *)
(***************************************************************************)
initialize(ga, admin) == [ init |-> TRUE, super_admin |-> admin ]

\* create_raffle that refuses the cap itself
create_raffle_below_cap(rec, admin, ticket_price_reap, ticket_price_sol, end_timestamp, winner_count, whitelisted, max_entrants, timestamp, holder) ==
    LET loaded == [rec EXCEPT !.init = TRUE]
    IN  IF max_entrants >= MAX_ENTRANTS
        THEN Result(loaded, "MaxEntrantsTooLarge", holder)
        ELSE IF timestamp > end_timestamp
        THEN Result(loaded, "EndTimeError", holder)
        ELSE IF ~TransferOk(holder, admin)
        THEN Result(loaded, "TokenError", holder)
        ELSE Result([loaded EXCEPT !.creator = admin,
                                   !.nft_mint = "nft",
                                   !.ticket_price_reap = ticket_price_reap,
                                   !.ticket_price_sol = ticket_price_sol,
                                   !.end_timestamp = end_timestamp,
                                   !.max_entrants = max_entrants,
                                   !.winner_count = winner_count,
                                   !.whitelisted = whitelisted],
                    Ok, Escrow)

create_raffle(rec, admin, ticket_price_reap, ticket_price_sol, end_timestamp, winner_count, whitelisted, max_entrants, timestamp, holder) ==
    LET loaded == [rec EXCEPT !.init = TRUE]
    IN  IF max_entrants > MAX_ENTRANTS
        THEN Result(loaded, "MaxEntrantsTooLarge", holder)
        ELSE IF timestamp > end_timestamp
        THEN Result(loaded, "EndTimeError", holder)
        ELSE IF ~TransferOk(holder, admin)
        THEN Result(loaded, "TokenError", holder)
        ELSE Result([loaded EXCEPT !.creator = admin,
                                   !.nft_mint = "nft",
                                   !.ticket_price_reap = ticket_price_reap,
                                   !.ticket_price_sol = ticket_price_sol,
                                   !.end_timestamp = end_timestamp,
                                   !.max_entrants = max_entrants,
                                   !.winner_count = winner_count,
                                   !.whitelisted = whitelisted],
                    Ok, Escrow)

\* RafflePool::append
append(rec, buyer) ==
    [rec EXCEPT !.entrants = Put(rec.entrants, rec.count, buyer, NoKey),
                !.count = rec.count + 1]

RECURSIVE append_n(_, _, _)
append_n(rec, buyer, n) ==
    IF n = 0 THEN rec ELSE append_n(append(rec, buyer), buyer, n - 1)

\* the scan of the live entrants for the buyer, and the update of no_repeat
count_repeat(rec, buyer) ==
    IF rec.count = 0
    THEN [rec EXCEPT !.no_repeat = 1]
    ELSE IF \E i \in 0 .. rec.count - 1 : At(rec.entrants, i, NoKey) = buyer
         THEN [rec EXCEPT !.no_repeat = rec.no_repeat + 1]
         ELSE rec

\* buy_checks with the capacity check made on count alone
buy_checks_ignoring_amount(rec, token_mint, amount, lamports, overflow_checks, timestamp) ==
    IF token_mint # REAP_TOKEN_MINT THEN "NotREAPToken"
    ELSE IF timestamp > rec.end_timestamp THEN "RaffleEnded"
    ELSE IF rec.count >= rec.max_entrants THEN "NotEnoughTicketsLeft"
    ELSE IF lamports < Wrap(amount * rec.ticket_price_sol) THEN "NotEnoughSOL"
    ELSE Ok

\* the checks made before anything is written
buy_checks(rec, token_mint, amount, lamports, overflow_checks, timestamp) ==
    LET sum == rec.count + amount
        total_amount_reap == amount * rec.ticket_price_reap
        total_amount_sol == amount * rec.ticket_price_sol
    IN  IF token_mint # REAP_TOKEN_MINT THEN "NotREAPToken"
        ELSE IF timestamp > rec.end_timestamp THEN "RaffleEnded"
        ELSE IF overflow_checks /\ Overflows(sum) THEN "Panic"
        ELSE IF Wrap(sum) >= rec.max_entrants THEN "NotEnoughTicketsLeft"
        ELSE IF overflow_checks
                /\ (Overflows(total_amount_reap) \/ Overflows(total_amount_sol))
        THEN "Panic"
        ELSE IF lamports < Wrap(total_amount_sol) THEN "NotEnoughSOL"
        ELSE Ok

\* append_all that appends one ticket whatever the amount
append_all_once(rec, buyer, amount) ==
    [ rec |-> append_n(rec, buyer, IF amount > 1 THEN 1 ELSE amount), err |-> Ok ]

\* for _ in 0..amount { raffle.append(buyer) }: the loop runs off the entrants
\* array, and the program panics, when there are more tickets than slots
append_all(rec, buyer, amount) ==
    IF rec.count + amount > MAX_ENTRANTS
    THEN [ rec |-> rec, err |-> "Panic" ]
    ELSE [ rec |-> append_n(rec, buyer, amount), err |-> Ok ]

\* pay that drops the result of the burn
pay_ignoring_burn(rec, amount, burn_ok, transfer_ok) ==
    IF Wrap(amount * rec.ticket_price_sol) > 0 /\ ~transfer_ok THEN "TokenError"
    ELSE Ok

\* the burn of currency A and the transfer of currency B to the creator
pay(rec, amount, burn_ok, transfer_ok) ==
    IF Wrap(amount * rec.ticket_price_reap) > 0 /\ ~burn_ok THEN "TokenError"
    ELSE IF Wrap(amount * rec.ticket_price_sol) > 0 /\ ~transfer_ok THEN "TokenError"
    ELSE Ok

buy_tickets(rec, buyer, token_mint, amount, lamports, burn_ok, transfer_ok, overflow_checks, timestamp, holder) ==
    LET checked == buy_checks(rec, token_mint, amount, lamports, overflow_checks,
                              timestamp)
        appended == append_all(count_repeat(rec, buyer), buyer, amount)
    IN  IF checked # Ok THEN Result(rec, checked, holder)
        ELSE IF appended.err # Ok THEN Result(appended.rec, appended.err, holder)
        ELSE Result(appended.rec, pay(rec, amount, burn_ok, transfer_ok), holder)

\* draw_one without the swap-remove of the entrant drawn
draw_one_keeping_entrant(rec, j, m) ==
    [rec EXCEPT
        !.winner = Put(rec.winner, j, At(rec.entrants, m % rec.count, NoKey), NoKey),
        !.count = rec.count - 1]

\* draw_one that forgets to shrink the pool
draw_one_keeping_count(rec, j, m) ==
    [rec EXCEPT
        !.winner = Put(rec.winner, j, At(rec.entrants, m % rec.count, NoKey), NoKey),
        !.entrants = Put(rec.entrants, m % rec.count,
                         At(rec.entrants, rec.count - 1, NoKey), NoKey)]

\* draw_one that takes the last live entrant whatever the number is
draw_one_last(rec, j, m) ==
    [rec EXCEPT
        !.winner = Put(rec.winner, j, At(rec.entrants, rec.count - 1, NoKey), NoKey),
        !.count = rec.count - 1]

\* draw_one that fills the slot of the entrant drawn with the first entrant
draw_one_swapping_first(rec, j, m) ==
    [rec EXCEPT
        !.winner = Put(rec.winner, j, At(rec.entrants, m % rec.count, NoKey), NoKey),
        !.entrants = Put(rec.entrants, m % rec.count,
                         At(rec.entrants, 0, NoKey), NoKey),
        !.count = rec.count - 1]

\* one iteration of the draw: winner[j] is taken from the live entrants
draw_one(rec, j, m) ==
    LET winner_index == m % rec.count
    IN  [rec EXCEPT
            !.winner = Put(rec.winner, j, At(rec.entrants, winner_index, NoKey), NoKey),
            !.entrants = Put(rec.entrants, winner_index,
                             At(rec.entrants, rec.count - 1, NoKey), NoKey),
            !.count = rec.count - 1]

RECURSIVE draw(_, _, _)
draw(rec, j, m) ==
    IF j >= rec.winner_count THEN rec
    ELSE draw(draw_one(rec, j, m), j + 1, m)

\* reveal_winner that sets winner_count to count whichever is larger
reveal_winner_raising(rec, timestamp, m, holder) ==
    IF timestamp < rec.end_timestamp
    THEN Result(rec, "RaffleNotEnded", holder)
    ELSE Result(draw([rec EXCEPT !.winner_count = rec.count], 0, m), Ok, holder)

\* reveal_winner that draws before the raffle has ended
reveal_winner_any_time(rec, timestamp, m, holder) ==
    LET clamped == IF rec.count < rec.winner_count
                   THEN [rec EXCEPT !.winner_count = rec.count]
                   ELSE rec
    IN  Result(draw(clamped, 0, m), Ok, holder)

reveal_winner(rec, timestamp, m, holder) ==
    IF timestamp < rec.end_timestamp
    THEN Result(rec, "RaffleNotEnded", holder)
    ELSE LET clamped == IF rec.count < rec.winner_count
                        THEN [rec EXCEPT !.winner_count = rec.count]
                        ELSE rec
         IN  Result(draw(clamped, 0, m), Ok, holder)

\* mark_claimed that marks every winner slot, whoever the winner is
mark_claimed_every_slot(rec, claimer, i) ==
    [rec EXCEPT !.claimed_winner =
        [k \in 1 .. rec.winner_count |-> 1]
            \o SubSeq(rec.claimed_winner, rec.winner_count + 1, Len(rec.claimed_winner))]

RECURSIVE mark_claimed(_, _, _)
mark_claimed(rec, claimer, i) ==
    IF i >= rec.winner_count THEN rec
    ELSE mark_claimed(
            IF At(rec.winner, i, NoKey) = claimer
            THEN [rec EXCEPT !.claimed_winner = Put(rec.claimed_winner, i, 1, 0)]
            ELSE rec,
            claimer, i + 1)

claim_reward(rec, claimer, timestamp, holder) ==
    IF timestamp < rec.end_timestamp
    THEN Result(rec, "RaffleNotEnded", holder)
    ELSE IF rec.whitelisted = 1
    THEN IF At(rec.winner, 0, NoKey) # claimer
         THEN Result(rec, "NotWinner", holder)
         ELSE IF ~TransferOk(holder, Escrow)
         THEN Result(rec, "TokenError", holder)
         ELSE Result([rec EXCEPT !.claimed_winner = Put(rec.claimed_winner, 0, 1, 0)],
                     Ok, claimer)
    ELSE Result(mark_claimed(rec, claimer, 0), Ok, holder)

\* withdraw_nft without the check that no entrant is left
withdraw_nft_with_entrants(rec, claimer, timestamp, holder) ==
    IF timestamp < rec.end_timestamp
    THEN Result(rec, "RaffleNotEnded", holder)
    ELSE IF rec.creator # claimer
    THEN Result(rec, "NotCreator", holder)
    ELSE IF ~TransferOk(holder, Escrow)
    THEN Result(rec, "TokenError", holder)
    ELSE Result([rec EXCEPT !.whitelisted = 3], Ok, claimer)

withdraw_nft(rec, claimer, timestamp, holder) ==
    IF timestamp < rec.end_timestamp
    THEN Result(rec, "RaffleNotEnded", holder)
    ELSE IF rec.creator # claimer
    THEN Result(rec, "NotCreator", holder)
    ELSE IF rec.count # 0
    THEN Result(rec, "OtherEntrants", holder)
    ELSE IF ~TransferOk(holder, Escrow)
    THEN Result(rec, "TokenError", holder)
    ELSE Result([rec EXCEPT !.whitelisted = 3], Ok, claimer)

(***************************************************************************)
(* The state machine.  A step is one instruction; an instruction that      *)
(* fails leaves no trace on the ledger.                                    *)
(***************************************************************************)
Init ==
    /\ global_authority = ZeroGlobal
    /\ raffle = [r \in RaffleIds |-> ZeroRaffle]
    /\ nft = "a"
    /\ now = 0
    /\ mul = Unknown
    /\ original = [r \in RaffleIds |-> 0]
    /\ revealed = [r \in RaffleIds |-> FALSE]

\* what an instruction on raffle account rid leaves behind
Finish(rid, res) ==
    /\ raffle' = [raffle EXCEPT ![rid] = Commit(raffle[rid], res)]
    /\ nft' = CommitNft(nft, res)
    /\ UNCHANGED <<global_authority, now>>

Refused == UNCHANGED <<global_authority, raffle, nft, now>>

\* the error of an instruction refused by the validation of its accounts
CreateRaffleAccounts(rid) ==
    IF GlobalAccountError(global_authority) # Ok
    THEN GlobalAccountError(global_authority)
    ELSE ZeroAccountError(raffle[rid])

BuyTicketsAccounts(rid) ==
    IF LoadMutError(raffle[rid]) # Ok
    THEN LoadMutError(raffle[rid])
    ELSE GlobalAccountError(global_authority)

RevealWinnerAccounts(rid) == LoadMutError(raffle[rid])

ClaimRewardAccounts(rid) ==
    IF LoadMutError(raffle[rid]) # Ok
    THEN LoadMutError(raffle[rid])
    ELSE GlobalAccountError(global_authority)

WithdrawNftAccounts(rid) ==
    IF LoadMutError(raffle[rid]) # Ok
    THEN LoadMutError(raffle[rid])
    ELSE GlobalAccountError(global_authority)

Initialize(admin) ==
    /\ global_authority' = initialize(global_authority, admin)
    /\ UNCHANGED <<raffle, nft, now, mul, original, revealed>>

CreateResult(rid, admin, p, end) ==
    create_raffle(raffle[rid], admin, p.ticket_price_reap, p.ticket_price_sol, end,
                  p.winner_count, p.whitelisted, p.max_entrants, now, nft)

CreateRaffle(rid, admin, p, end) ==
    /\ IF CreateRaffleAccounts(rid) # Ok
       THEN Refused
       ELSE Finish(rid, CreateResult(rid, admin, p, end))
    /\ original' = IF raffle'[rid] # raffle[rid]
                   THEN [original EXCEPT ![rid] = p.winner_count]
                   ELSE original
    /\ UNCHANGED <<mul, revealed>>

BuyResult(rid, buyer, amount, env) ==
    buy_tickets(raffle[rid], buyer, env.token_mint, amount, env.lamports,
                env.burn_ok, env.transfer_ok, env.overflow_checks, now, nft)

BuyTickets(rid, buyer, amount, env) ==
    /\ IF BuyTicketsAccounts(rid) # Ok
       THEN Refused
       ELSE /\ BuyResult(rid, buyer, amount, env).err = Ok =>
                    /\ BuyResult(rid, buyer, amount, env).rec.count <= MaxTickets
                    /\ BuyResult(rid, buyer, amount, env).rec.no_repeat <= MaxRepeats
            /\ Finish(rid, BuyResult(rid, buyer, amount, env))
    /\ UNCHANGED <<mul, original, revealed>>

\* m is the number derived from the timestamp: the same for every call at `now`
RevealWinner(rid, m) ==
    /\ mul \in {Unknown, m}
    /\ IF RevealWinnerAccounts(rid) # Ok
       THEN Refused /\ UNCHANGED <<mul, revealed>>
       ELSE LET res == reveal_winner(raffle[rid], now, m, nft)
            IN  /\ Finish(rid, res)
                /\ mul' = IF res.err = Ok THEN m ELSE mul
                /\ revealed' = IF res.err = Ok
                               THEN [revealed EXCEPT ![rid] = TRUE] ELSE revealed
    /\ UNCHANGED original

ClaimReward(rid, claimer) ==
    /\ IF ClaimRewardAccounts(rid) # Ok
       THEN Refused
       ELSE Finish(rid, claim_reward(raffle[rid], claimer, now, nft))
    /\ UNCHANGED <<mul, original, revealed>>

WithdrawNft(rid, claimer) ==
    /\ IF WithdrawNftAccounts(rid) # Ok
       THEN Refused
       ELSE Finish(rid, withdraw_nft(raffle[rid], claimer, now, nft))
    /\ UNCHANGED <<mul, original, revealed>>

\* the ledger clock advances
Tick ==
    /\ now < MaxTime
    /\ now' = now + 1
    /\ mul' = Unknown
    /\ UNCHANGED <<global_authority, raffle, nft, original, revealed>>

\* one raffle account, every input
Next ==
    \/ \E admin \in Users : Initialize(admin)
    \/ \E admin \in Users, p \in RaffleParams, end \in EndTimes :
            CreateRaffle("r1", admin, p, end)
    \/ \E buyer \in Users, in \in BuyInputs : BuyTickets("r1", buyer, in[1], in[2])
    \/ \E m \in RandValues : RevealWinner("r1", m)
    \/ \E claimer \in Users : ClaimReward("r1", claimer)
    \/ \E claimer \in Users : WithdrawNft("r1", claimer)
    \/ Tick

Spec == Init /\ [][Next]_vars

\* two raffle accounts that share the escrow, SingleAsset raffles only
NextShared ==
    \/ \E admin \in Users : Initialize(admin)
    \/ \E rid \in RaffleIds, admin \in Users, end \in EndTimes :
            /\ rid = "r1" \/ raffle["r1"].init
            /\ CreateRaffle(rid, admin, SingleAssetParams, end)
    \/ \E rid \in RaffleIds : BuyTickets(rid, "b", 1, GoodEnv)
    \/ \E rid \in RaffleIds, m \in RandValues : RevealWinner(rid, m)
    \/ \E rid \in RaffleIds, claimer \in Users : ClaimReward(rid, claimer)
    \/ \E rid \in RaffleIds, claimer \in Users : WithdrawNft(rid, claimer)
    \/ Tick

SpecShared == Init /\ [][NextShared]_vars

\* one raffle account, every input, the program initialized by its deployer
\* alone: no handler reads super_admin
NextDeployed ==
    \/ Initialize("a")
    \/ \E admin \in Users, p \in RaffleParams, end \in EndTimes :
            CreateRaffle("r1", admin, p, end)
    \/ \E buyer \in Users, in \in BuyInputs : BuyTickets("r1", buyer, in[1], in[2])
    \/ \E m \in RandValues : RevealWinner("r1", m)
    \/ \E claimer \in Users : ClaimReward("r1", claimer)
    \/ \E claimer \in Users : WithdrawNft("r1", claimer)
    \/ Tick

SpecDeployed == Init /\ [][NextDeployed]_vars

(***************************************************************************)
(* The claims.  A claim about what a call does is stated of every call     *)
(* that can be made in a reachable state: the record the call leaves is    *)
(* Commit of the record before it and of the handler's result.             *)
(***************************************************************************)
Created(rid) == raffle[rid].init

Min(x, y) == IF x < y THEN x ELSE y

Elems(arr) == { arr[i] : i \in 1 .. Len(arr) }

\* C1: in every reachable state of every raffle, count <= max_entrants.
C1_CountWithinMax ==
    \A rid \in RaffleIds : raffle[rid].count <= raffle[rid].max_entrants

\* tickets were bought up to the explored limit, and a draw took some of them
C1_Witness ==
    /\ raffle["r1"].count = 1
    /\ Len(raffle["r1"].entrants) = MaxTickets
    /\ raffle["r1"].count < raffle["r1"].max_entrants

\* C2: in SingleAsset mode a claim at or after end_timestamp fails with
\* NotWinner for every caller other than winner[0], sets claimed_winner[0] when
\* it succeeds, and does not succeed again once claimed_winner[0] is set.
C2_ClaimsOnce ==
    \A rid \in RaffleIds, claimer \in Users :
        LET pre == raffle[rid]
            res == claim_reward(pre, claimer, now, nft)
        IN  (Created(rid) /\ pre.whitelisted = 1 /\ now >= pre.end_timestamp) =>
                /\ claimer # At(pre.winner, 0, NoKey) => res.err = "NotWinner"
                /\ res.err = Ok => At(Commit(pre, res).claimed_winner, 0, 0) = 1
                /\ At(pre.claimed_winner, 0, 0) = 1 => res.err # Ok

\* a reveal_winner call on rid that finds m to be the number of the timestamp
CanReveal(rid, m) ==
    /\ Created(rid)
    /\ now >= raffle[rid].end_timestamp
    /\ mul \in {Unknown, m}

Revealed(rid, m) == Commit(raffle[rid], reveal_winner(raffle[rid], now, m, nft))

\* the winners one reveal_winner call records
Drawn(post) == SubSeq(post.winner, 1, post.winner_count)

Occurrences(x, arr) == Cardinality({ i \in 1 .. Len(arr) : arr[i] = x })

C4_NoDuplicateWinners ==
    \A rid \in RaffleIds, m \in RandValues :
        LET pre == raffle[rid]
            post == Revealed(rid, m)
        IN  (CanReveal(rid, m) /\ pre.count >= pre.winner_count) =>
                \A i, j \in 1 .. post.winner_count :
                    i # j => post.winner[i] # post.winner[j]

\* C4 as amended: no ticket is drawn twice, that is, an identity is recorded as
\* a winner by one call at most as often as it holds live tickets before it.
C4_NoTicketDrawnTwice ==
    \A rid \in RaffleIds, m \in RandValues, u \in Users :
        LET pre == raffle[rid]
            post == Revealed(rid, m)
        IN  CanReveal(rid, m) =>
                Occurrences(u, Drawn(post)) <= Occurrences(u, Live(pre))

\* two tickets of two buyers were drawn by one call
C4_Witness ==
    /\ raffle["r1"].winner_count = 2
    /\ Len(raffle["r1"].winner) = 2
    /\ raffle["r1"].winner[1] # raffle["r1"].winner[2]
    /\ raffle["r1"].count = 0

\* a withdraw_nft call on rid at or after end_timestamp
CanWithdraw(rid) == Created(rid) /\ now >= raffle[rid].end_timestamp

\* C5 as stated: withdraw_nft at or after end_timestamp fails with NotCreator
\* for another caller than the creator, with OtherEntrants when count > 0, and
\* for the creator with count = 0 it succeeds, hands the NFT to the creator and
\* retires the record; it never succeeds while count > 0.
C5_WithdrawSucceeds ==
    \A rid \in RaffleIds, claimer \in Users :
        LET pre == raffle[rid]
            res == withdraw_nft(pre, claimer, now, nft)
        IN  CanWithdraw(rid) =>
                /\ claimer # pre.creator => res.err = "NotCreator"
                /\ (claimer = pre.creator /\ pre.count > 0) => res.err = "OtherEntrants"
                /\ (claimer = pre.creator /\ pre.count = 0) =>
                        /\ res.err = Ok
                        /\ CommitNft(nft, res) = pre.creator
                        /\ Commit(pre, res).whitelisted = 3
                /\ res.err = Ok => pre.count = 0

\* C5 as amended: the creator's call with count = 0 succeeds when the escrow
\* holds the NFT, and otherwise fails on the transfer and changes nothing.
C5_WithdrawFromEscrow ==
    \A rid \in RaffleIds, claimer \in Users :
        LET pre == raffle[rid]
            res == withdraw_nft(pre, claimer, now, nft)
        IN  CanWithdraw(rid) =>
                /\ claimer # pre.creator => res.err = "NotCreator"
                /\ (claimer = pre.creator /\ pre.count > 0) => res.err = "OtherEntrants"
                /\ (claimer = pre.creator /\ pre.count = 0 /\ nft = Escrow) =>
                        /\ res.err = Ok
                        /\ CommitNft(nft, res) = pre.creator
                        /\ Commit(pre, res).whitelisted = 3
                /\ (claimer = pre.creator /\ pre.count = 0 /\ nft # Escrow) =>
                        /\ res.err = "TokenError"
                        /\ CommitNft(nft, res) = nft
                        /\ Commit(pre, res) = pre
                /\ res.err = Ok => pre.count = 0

\* the creator has withdrawn the NFT, and tickets wait in another state
C5_Witness ==
    /\ raffle["r1"].whitelisted = 3
    /\ nft = raffle["r1"].creator
    /\ Len(raffle["r1"].entrants) > 0

\* a buy_tickets call on rid that passes the checks made before the capacity check
CanBuy(rid, env) ==
    /\ Created(rid)
    /\ env.token_mint = REAP_TOKEN_MINT
    /\ now <= raffle[rid].end_timestamp

\* C6: buy_tickets succeeds only when count + amount < max_entrants; a purchase
\* with count + amount >= max_entrants fails with NotEnoughTicketsLeft and
\* leaves the record as it was.
C6_StrictCapacity ==
    \A rid \in RaffleIds, buyer \in Users, amount \in Amounts, env \in BuyEnvs :
        LET pre == raffle[rid]
            res == BuyResult(rid, buyer, amount, env)
        IN  CanBuy(rid, env) =>
                /\ pre.count + amount >= pre.max_entrants =>
                        /\ res.err = "NotEnoughTicketsLeft"
                        /\ Commit(pre, res) = pre
                /\ res.err = Ok => pre.count + amount < pre.max_entrants

\* C7: a successful buy_tickets(amount) by a buyer raises count by amount, sets
\* the new live slots to the buyer and leaves the live entries before it as
\* they were.
C7_OrderPreservingAppend ==
    \A rid \in RaffleIds, buyer \in Users, in \in BuyInputs :
        LET pre == raffle[rid]
            amount == in[1]
            res == BuyResult(rid, buyer, amount, in[2])
            post == Commit(pre, res)
        IN  (Created(rid) /\ res.err = Ok) =>
                /\ post.count = pre.count + amount
                /\ \A i \in 0 .. amount - 1 :
                        At(post.entrants, pre.count + i, NoKey) = buyer
                /\ \A i \in 0 .. pre.count - 1 :
                        At(post.entrants, i, NoKey) = At(pre.entrants, i, NoKey)

\* two purchases were made, and a third one of two tickets can follow
C7_Witness ==
    /\ Live(raffle["r1"]) = <<"a", "b">>
    /\ BuyResult("r1", "b", 2, GoodEnv).err = Ok

\* the calls the claims say must fail, told from the arguments and the state
CreateMustFail(admin, p, end) ==
    \/ p.max_entrants > MAX_ENTRANTS
    \/ now > end
    \/ nft # admin

BuyMustFail(rid, amount, env) ==
    \/ env.token_mint # REAP_TOKEN_MINT
    \/ now > raffle[rid].end_timestamp
    \/ raffle[rid].count + amount >= raffle[rid].max_entrants
    \/ env.lamports < amount * raffle[rid].ticket_price_sol
    \/ amount * raffle[rid].ticket_price_reap > 0 /\ ~env.burn_ok
    \/ amount * raffle[rid].ticket_price_sol > 0 /\ ~env.transfer_ok

ClaimMustFail(rid, claimer) ==
    \/ now < raffle[rid].end_timestamp
    \/ /\ raffle[rid].whitelisted = 1
       /\ \/ At(raffle[rid].winner, 0, NoKey) # claimer
          \/ nft # Escrow

WithdrawMustFail(rid, claimer) ==
    \/ now < raffle[rid].end_timestamp
    \/ raffle[rid].creator # claimer
    \/ raffle[rid].count # 0
    \/ nft # Escrow

\* the record and the holder of the NFT are what they were before the call
Untouched(rid, res) ==
    /\ Commit(raffle[rid], res) = raffle[rid]
    /\ CommitNft(nft, res) = nft

\* C8: a call that aborts, on a violated precondition or on a burn or transfer
\* the collaborator refuses, leaves the record (and the escrow) as before the call.
C8_FailureChangesNothing ==
    \A rid \in RaffleIds, caller \in Users :
        /\ \A p \in RaffleParams, end \in EndTimes :
            LET res == CreateResult(rid, caller, p, end)
            IN  (CreateRaffleAccounts(rid) = Ok
                 /\ (CreateMustFail(caller, p, end) \/ res.err # Ok))
                    => res.err # Ok /\ Untouched(rid, res)
        /\ \A in \in BuyInputs :
            LET res == BuyResult(rid, caller, in[1], in[2])
            IN  (Created(rid) /\ (BuyMustFail(rid, in[1], in[2]) \/ res.err # Ok))
                    => res.err # Ok /\ Untouched(rid, res)
        /\ \A m \in RandValues :
            LET res == reveal_winner(raffle[rid], now, m, nft)
            IN  (Created(rid) /\ (now < raffle[rid].end_timestamp \/ res.err # Ok))
                    => res.err # Ok /\ Untouched(rid, res)
        /\ LET res == claim_reward(raffle[rid], caller, now, nft)
           IN  (Created(rid) /\ (ClaimMustFail(rid, caller) \/ res.err # Ok))
                    => res.err # Ok /\ Untouched(rid, res)
        /\ LET res == withdraw_nft(raffle[rid], caller, now, nft)
           IN  (Created(rid) /\ (WithdrawMustFail(rid, caller) \/ res.err # Ok))
                    => res.err # Ok /\ Untouched(rid, res)

\* tickets are held, and a purchase whose burn is refused can be made
C8_Witness ==
    /\ raffle["r1"].count > 0
    /\ raffle["r1"].ticket_price_reap > 0
    /\ now <= raffle["r1"].end_timestamp
    /\ BuyResult("r1", "b", 1, BuyEnv("REAP", U64Modulus - 1, FALSE, TRUE, FALSE)).err
            = "TokenError"

\* C9: once withdraw_nft has retired the record, no buy_tickets, reveal_winner,
\* claim_reward or withdraw_nft call changes a field of it.
C9_RetiredIsInert ==
    \A rid \in RaffleIds :
        (Created(rid) /\ raffle[rid].whitelisted = 3) =>
            /\ \A buyer \in Users, amount \in Amounts, env \in BuyEnvs :
                   Commit(raffle[rid], BuyResult(rid, buyer, amount, env)) = raffle[rid]
            /\ \A m \in RandValues : Revealed(rid, m) = raffle[rid]
            /\ \A claimer \in Users :
                   /\ Commit(raffle[rid], claim_reward(raffle[rid], claimer, now, nft))
                        = raffle[rid]
                   /\ Commit(raffle[rid], withdraw_nft(raffle[rid], claimer, now, nft))
                        = raffle[rid]

\* C10: once initialize has set super_admin, another initialize call, by
\* whatever caller, leaves the GlobalPool account as it is.
C10_InitializeOnce ==
    global_authority.init =>
        \A admin \in Users :
            initialize(global_authority, admin) = global_authority

\* a create_raffle call on rid whose accounts pass validation
CanCreate(rid) == CreateRaffleAccounts(rid) = Ok

\* C11: create_raffle fails with EndTimeError whenever end_timestamp is not in
\* the future (end_timestamp <= the current time), and the record is then not
\* initialized.  Stated of the calls that pass the max_entrants check.
C11_EndTimeInFuture ==
    \A rid \in RaffleIds, admin \in Users, p \in RaffleParams, end \in EndTimes :
        LET pre == raffle[rid]
            res == CreateResult(rid, admin, p, end)
        IN  (CanCreate(rid) /\ p.max_entrants <= MAX_ENTRANTS /\ end <= now) =>
                /\ res.err = "EndTimeError"
                /\ ~Commit(pre, res).init

\* C12: create_raffle fails with MaxEntrantsTooLarge for every max_entrants
\* above 2000, and with end_timestamp in the future and the NFT in the hands
\* of the caller it succeeds for every max_entrants <= 2000 and leaves a record
\* with count = 0 that holds the arguments.
C12_MaxEntrantsCap ==
    \A rid \in RaffleIds, admin \in Users, p \in RaffleParams, end \in EndTimes :
        LET pre == raffle[rid]
            res == CreateResult(rid, admin, p, end)
            post == Commit(pre, res)
        IN  CanCreate(rid) =>
                /\ p.max_entrants > MAX_ENTRANTS =>
                        /\ res.err = "MaxEntrantsTooLarge"
                        /\ post = pre
                /\ (p.max_entrants <= MAX_ENTRANTS /\ now < end /\ nft = admin) =>
                        /\ res.err = Ok
                        /\ post.init
                        /\ post.count = 0
                        /\ Live(post) = <<>>
                        /\ post.max_entrants = p.max_entrants
                        /\ post.creator = admin
                        /\ CommitNft(nft, res) = Escrow

\* the creator holds the NFT before the end time, and no raffle was created yet
C12_Witness ==
    /\ CanCreate("r1")
    /\ nft = "a"
    /\ \E end \in EndTimes : now < end
    /\ \E p \in RaffleParams : p.max_entrants = MAX_ENTRANTS
    /\ \E p \in RaffleParams : p.max_entrants = MAX_ENTRANTS + 1

\* C13: no_repeat counts the successful purchases made by a buyer who held a
\* live ticket when buying: a successful buy_tickets raises it by one when the
\* buyer is among the live entrants before the call and leaves it as it is
\* otherwise, so that it is 0 after the first purchase of a raffle.
C13_RepeatsCounted ==
    \A rid \in RaffleIds, buyer \in Users, in \in BuyInputs :
        LET pre == raffle[rid]
            res == BuyResult(rid, buyer, in[1], in[2])
            post == Commit(pre, res)
        IN  (Created(rid) /\ res.err = Ok) =>
                post.no_repeat = pre.no_repeat
                                    + (IF buyer \in Elems(Live(pre)) THEN 1 ELSE 0)

\* C14 as stated: in the state a successful reveal_winner leaves,
\* winner_count <= count, and the call has not raised winner_count.
C14_WinnerCountWithinCount ==
    \A rid \in RaffleIds, m \in RandValues :
        LET pre == raffle[rid]
            post == Revealed(rid, m)
        IN  CanReveal(rid, m) =>
                /\ post.winner_count <= post.count
                /\ post.winner_count <= pre.winner_count

\* C14 as amended: a successful reveal_winner leaves winner_count <= the count
\* it found (the count it leaves is lower by winner_count); no step on a
\* created raffle raises winner_count, and a step that lowers it lowers it to
\* the count the step found.
C14_WinnerCountClamped ==
    /\ [](\A rid \in RaffleIds, m \in RandValues :
            LET pre == raffle[rid]
                post == Revealed(rid, m)
            IN  CanReveal(rid, m) =>
                    /\ post.winner_count <= pre.count
                    /\ post.winner_count <= pre.winner_count
                    /\ post.count = pre.count - post.winner_count)
    /\ [][\A rid \in RaffleIds :
            Created(rid) =>
                /\ raffle'[rid].winner_count <= raffle[rid].winner_count
                /\ raffle'[rid].winner_count < raffle[rid].winner_count =>
                        raffle'[rid].winner_count = raffle[rid].count]_vars

\* a draw found one ticket in a raffle created for two winners
C14_Witness ==
    /\ original["r1"] = 2
    /\ raffle["r1"].winner_count = 1
    /\ Len(raffle["r1"].winner) = 1
    /\ raffle["r1"].count = 0
    /\ Len(raffle["r1"].entrants) = 1

\* a claim_reward call on rid, a raffle for whitelist spots, at or after its end
CanClaimSpots(rid) ==
    /\ Created(rid)
    /\ raffle[rid].whitelisted = 0
    /\ now >= raffle[rid].end_timestamp

\* C15: in a raffle for whitelist spots, a claim_reward call at or after
\* end_timestamp succeeds, sets claimed_winner[i] for exactly the winner slots
\* i < winner_count with winner[i] = the caller, changes no other flag and no
\* other field of the record, and leaves the NFT where it is.
C15_WhitelistClaimMarksSlots ==
    \A rid \in RaffleIds, claimer \in Users :
        LET pre == raffle[rid]
            res == claim_reward(pre, claimer, now, nft)
            post == Commit(pre, res)
        IN  CanClaimSpots(rid) =>
                /\ res.err = Ok
                /\ \A i \in 0 .. MaxTickets :
                        At(post.claimed_winner, i, 0) =
                            IF i < pre.winner_count /\ At(pre.winner, i, NoKey) = claimer
                            THEN 1
                            ELSE At(pre.claimed_winner, i, 0)
                /\ [post EXCEPT !.claimed_winner = pre.claimed_winner] = pre
                /\ CommitNft(nft, res) = nft

\* two winners of whitelist spots: the second has claimed, the first has not
C15_Witness ==
    /\ CanClaimSpots("r1")
    /\ raffle["r1"].winner_count = 2
    /\ Len(raffle["r1"].winner) = 2
    /\ raffle["r1"].winner[1] # raffle["r1"].winner[2]
    /\ At(raffle["r1"].claimed_winner, 0, 0) = 0
    /\ At(raffle["r1"].claimed_winner, 1, 0) = 1

\* the draw as the text describes it, on the live entrants as a sequence: k
\* times over, the entrant at index r mod (the current length) wins, the last
\* entrant takes its place and the sequence gets one shorter
RECURSIVE Pick(_, _, _)
Pick(live, k, r) ==
    IF k = 0
    THEN [ winners |-> <<>>, rest |-> live ]
    ELSE LET n == Len(live)
             winner_index == r % n
             swapped == [live EXCEPT ![winner_index + 1] = live[n]]
             next == Pick(SubSeq(swapped, 1, n - 1), k - 1, r)
         IN  [ winners |-> <<live[winner_index + 1]>> \o next.winners,
               rest |-> next.rest ]

\* C16: the draw is a function of the record before it and of the time of the
\* call: every iteration uses the one number r derived from the timestamp,
\* iteration j takes the entrant at r mod (the current count), the outcome does
\* not depend on anything else the call is given, and calls made from the same
\* record at the same timestamp leave the same winners, entrants and count.
C16_DrawDetermined ==
    \A rid \in RaffleIds, m \in RandValues :
        LET pre == raffle[rid]
            post == Revealed(rid, m)
            picked == Pick(Live(pre), Min(pre.winner_count, pre.count), m)
        IN  CanReveal(rid, m) =>
                /\ Drawn(post) = picked.winners
                /\ Live(post) = picked.rest
                /\ post.count = Len(picked.rest)
                /\ \A holder \in Users \cup {Escrow} :
                        reveal_winner(pre, now, m, holder).rec = post
                /\ \A m2 \in RandValues :
                        (mul # Unknown /\ CanReveal(rid, m2)) => Revealed(rid, m2) = post

\* a draw was made at this timestamp, and two tickets of two buyers wait for
\* the next one
C16_Witness ==
    /\ mul # Unknown
    /\ CanReveal("r1", mul)
    /\ raffle["r1"].count = 2
    /\ raffle["r1"].entrants[1] # raffle["r1"].entrants[2]
    /\ raffle["r1"].winner_count >= 1

\* C17: the swap-remove conserves the tickets: the winners a reveal_winner call
\* records together with the live entrants it leaves are, as multisets of
\* identities, the live entrants before the call.
C17_TicketsConserved ==
    \A rid \in RaffleIds, m \in RandValues :
        LET pre == raffle[rid]
            post == Revealed(rid, m)
        IN  CanReveal(rid, m) =>
                /\ Len(Drawn(post)) + Len(Live(post)) = Len(Live(pre))
                /\ \A u \in Users \cup {NoKey} :
                        Occurrences(u, Drawn(post)) + Occurrences(u, Live(post))
                            = Occurrences(u, Live(pre))

\* two tickets of two buyers wait for a draw of two winners
C17_Witness ==
    /\ CanReveal("r1", 0)
    /\ raffle["r1"].winner_count = 2
    /\ Live(raffle["r1"]) = <<"b", "a">>

\* a single-asset raffle whose draw has recorded a winner (winner is written
\* only by a draw that found a live entrant) who has not claimed the NFT yet
WinnerWaits(rid) ==
    /\ Created(rid)
    /\ revealed[rid]
    /\ raffle[rid].whitelisted = 1
    /\ Len(raffle[rid].winner) > 0
    /\ At(raffle[rid].claimed_winner, 0, 0) = 0
    /\ nft = Escrow

\* C18: in a single-asset raffle, once reveal_winner has drawn a winner from a
\* non-empty pool, the NFT leaves the escrow only to winner[0]: until that
\* winner has claimed, no withdraw_nft call succeeds and no claim_reward call
\* of anybody else does.
C18_PrizeKeptForWinner ==
    \A rid \in RaffleIds, claimer \in Users :
        WinnerWaits(rid) =>
            /\ withdraw_nft(raffle[rid], claimer, now, nft).err # Ok
            /\ claim_reward(raffle[rid], claimer, now, nft).err = Ok =>
                    claimer = At(raffle[rid].winner, 0, NoKey)

\* the buy_tickets calls on rid that succeed in this state
BuysAccepted(rid) ==
    { in \in Users \X BuyInputs :
        Created(rid) /\ BuyResult(rid, in[1], in[2][1], in[2][2]).err = Ok }

\* C19 as stated: once a reveal_winner call on a raffle has succeeded, no
\* buy_tickets call on that raffle succeeds.
C19_NoPurchaseAfterDraw ==
    \A rid \in RaffleIds : revealed[rid] => BuysAccepted(rid) = {}

\* C19 as amended: a reveal_winner call succeeds only at or after
\* end_timestamp and a buy_tickets call only at or before it, so that once a
\* reveal_winner call has succeeded a buy_tickets call can succeed only while
\* the time is still end_timestamp, and never after the clock has moved on.
C19_NoPurchaseAfterDrawTime ==
    \A rid \in RaffleIds :
        /\ revealed[rid] =>
                /\ now >= raffle[rid].end_timestamp
                /\ BuysAccepted(rid) # {} => now = raffle[rid].end_timestamp
        /\ \A m \in RandValues :
                (Created(rid) /\ reveal_winner(raffle[rid], now, m, nft).err = Ok)
                    => now >= raffle[rid].end_timestamp

\* a draw was made, the clock has passed end_timestamp, and a purchase is refused
C19_Witness ==
    /\ revealed["r1"]
    /\ now > raffle["r1"].end_timestamp
    /\ raffle["r1"].count < raffle["r1"].max_entrants
    /\ BuyResult("r1", "a", 1, GoodEnv).err = "RaffleEnded"

\* the record keeps the draw: winners, winner_count and live entrants
SameDraw(pre, post) ==
    /\ post.winner = pre.winner
    /\ post.winner_count = pre.winner_count
    /\ Live(post) = Live(pre)

\* C20: the draw is final: after a successful reveal_winner on a raffle, no
\* operation, reveal_winner itself included, changes winner, winner_count or
\* the live entrants, so that a claimed slot keeps the identity that claimed it.
C20_DrawIsFinal ==
    \A rid \in RaffleIds :
        revealed[rid] =>
            /\ \A m \in RandValues :
                    CanReveal(rid, m) => SameDraw(raffle[rid], Revealed(rid, m))
            /\ \A buyer \in Users, in \in BuyInputs :
                    SameDraw(raffle[rid],
                             Commit(raffle[rid], BuyResult(rid, buyer, in[1], in[2])))
            /\ \A claimer \in Users :
                    /\ SameDraw(raffle[rid],
                                Commit(raffle[rid],
                                       claim_reward(raffle[rid], claimer, now, nft)))
                    /\ SameDraw(raffle[rid],
                                Commit(raffle[rid],
                                       withdraw_nft(raffle[rid], claimer, now, nft)))
=============================================================================
